---- MODULE Spec2Model ----
(***************************************************************************)
(* TextureOp (GrTextureOp.cpp): the op that batches textured quads.  The   *)
(* model follows the op's fields and its handlers: the constructor,        *)
(* finalize, onCombineIfPossible with mergeProxies, onPrepareDraws and the *)
(* destructor, together with the reference counts of the texture proxies   *)
(* the op touches, and the vertices tessellate_quad writes for each draw.  *)
(***************************************************************************)
EXTENDS Integers, Sequences, FiniteSets, TLC

\* Number of ops the recording pass creates.
NumOps == 3
\* Number of texture proxies that exist.
NumTex == 4

\* static constexpr int kMaxTextures = 8 (the non-Android build).
kMaxTextures == 8

Ops == 1..NumOps
Tex == 1..NumTex

VARIABLES
    caps,           \* GrShaderCaps of the context: fixed for a run
    ops,            \* the TextureOp objects, by op id
    fRefCnt,        \* per proxy: references held by ops (GrIORef::fRefCnt, relative)
    fPendingReads,  \* per proxy: pending reads (GrIORef::fPendingReads)
    instantiated,   \* proxies that have a backing GrTexture (peekTexture() != null)
    flushing,       \* the recording pass is over and the flush has begun
    ret,            \* the last call, when it was one of these: "merged" / "refused",
                    \* onCombineIfPossible returned true / false; "discarded", the
                    \* destructor ran on an op that was never finalized; else "none"
    target,         \* what the last call of onPrepareDraws handed to its Target
                    \* (the draws) and printed (the log); empty after any other call
    fault           \* [in, how]: the handler the process ended in, how a failed
                    \* SkASSERT ("assert") or undefined behaviour ("ub")

vars == <<caps, ops, fRefCnt, fPendingReads, instantiated, flushing, ret, target, fault>>

Min(a, b) == IF a <= b THEN a ELSE b
Max(a, b) == IF a >= b THEN a ELSE b

----------------------------------------------------------------------------
(* The texture proxies.  A proxy's uniqueID is its number in Tex.  Config  *)
(* and sampler type are fixed properties of a proxy.                       *)

\* GrTextureProxy::config(): proxies 4, 8, ... are alpha-only, the rest RGBA.
Config(t) == IF t % 4 = 0 THEN "kAlpha_8" ELSE "kRGBA_8888"

\* GrTexturePriv::samplerType() of the proxy's texture: proxies 3, 7, ... are
\* external (or rectangle) textures, the rest plain 2D textures.
SamplerType(t) == IF t % 4 = 3 THEN "kTextureExternalSampler" ELSE "kTexture2DSampler"

\* GrShaderCaps the model is run under: {integerSupport, maxFragmentSamplers,
\* disableImageMultitexturingDstRectAreaThreshold}.
CapsSet ==
    { [integerSupport |-> TRUE,  maxFragmentSamplers |-> 8, areaThreshold |-> 8],
      [integerSupport |-> TRUE,  maxFragmentSamplers |-> 2, areaThreshold |-> 8],
      [integerSupport |-> FALSE, maxFragmentSamplers |-> 8, areaThreshold |-> 8],
      [integerSupport |-> TRUE,  maxFragmentSamplers |-> 1, areaThreshold |-> 8] }

\* TextureGeometryProcessor::SupportsMultitexture
SupportsMultitexture(c) == c.integerSupport /\ c.maxFragmentSamplers > 1

----------------------------------------------------------------------------
(* Rectangles and the requests GrTextureOp::Make is called with.           *)

Rect(l, t, r, b) == [fLeft |-> l, fTop |-> t, fRight |-> r, fBottom |-> b]

\* TextureOp::RectSizeAsSizeT
RectSizeAsSizeT(rect) ==
    Max(rect.fRight - rect.fLeft, 1) * Max(rect.fBottom - rect.fTop, 1)

\* GrOp::joinBounds: the smallest rectangle holding both.
JoinBounds(r1, r2) ==
    Rect(Min(r1.fLeft, r2.fLeft), Min(r1.fTop, r2.fTop),
         Max(r1.fRight, r2.fRight), Max(r1.fBottom, r2.fBottom))

Req(t, f, c, d, aa, p, x, s) ==
    [proxy |-> t, filter |-> f, color |-> c, srcRect |-> Rect(0, 0, 1, 1),
     dstRect |-> d, aaType |-> aa, hasPerspective |-> p, csxf |-> x,
     allowSRGBInputs |-> s]

SmallRect == Rect(0, 0, 2, 2)
OtherRect == Rect(1, 1, 3, 2)
BigRect   == Rect(0, 0, 4, 4)
ThinRect  == Rect(2, 0, 2, 3)

\* The draw requests a client may issue.  csxf is "null" or the name of a
\* colour space transform (GrColorSpaceXform::Equals compares by value).
Requests ==
    [ t \in Tex |-> Req(t, "kNearest", 1, IF t % 2 = 0 THEN OtherRect ELSE SmallRect,
                        "kNone", t % 2 = 0, "null", t % 2 = 0) ]
    \o
    << Req(1, "kBilerp",  2, ThinRect,  "kNone",     FALSE, "null", FALSE),
       Req(1, "kNearest", 2, SmallRect, "kCoverage", FALSE, "null", FALSE),
       Req(1, "kNearest", 2, SmallRect, "kNone",     FALSE, "srgbToP3", FALSE),
       Req(2, "kNearest", 2, BigRect,   "kNone",     FALSE, "null", FALSE),
       Req(1, "kNearest", 2, ThinRect,  "kCoverage", FALSE, "null", FALSE),
       Req(1, "kNearest", 2, ThinRect,  "kCoverage", TRUE,  "null", FALSE) >>

\* GrPerspQuad(dstRect, viewMatrix): the corners of the rectangle in triangle
\* strip order (top left, bottom left, top right, bottom right), mapped by the
\* matrix and kept homogeneous.  The view matrix of a request is the identity,
\* or with hasPerspective the identity times 2 (persp2 = 2): both take the
\* rectangle to itself in device space.
GrPerspQuad(rect, hasPerspective) ==
    LET w == IF hasPerspective THEN 2 ELSE 1
    IN  [fX |-> <<w * rect.fLeft, w * rect.fLeft, w * rect.fRight, w * rect.fRight>>,
         fY |-> <<w * rect.fTop, w * rect.fBottom, w * rect.fTop, w * rect.fBottom>>,
         fW |-> <<w, w, w, w>>]

\* GrPerspQuad::bounds: of the points divided by w.
QuadBounds(quad) ==
    LET xs == { quad.fX[i] \div quad.fW[i] : i \in 1..4 }
        ys == { quad.fY[i] \div quad.fW[i] : i \in 1..4 }
        Least(S) == CHOOSE m \in S : \A n \in S : m <= n
        Most(S) == CHOOSE m \in S : \A n \in S : m >= n
    IN  Rect(Least(xs), Least(ys), Most(xs), Most(ys))

----------------------------------------------------------------------------
(* The op object.                                                          *)

\* The proxy and the filter in slot s (0-based, as in the code) of an op:
\* proxies()[s] and filters()[s].  fProxies and fFilters hold the first fProxyCnt
\* entries of the arrays (fProxy0 and fFilter0 while fProxyCnt is 1); what lies
\* beyond in the allocated arrays is never read.
Proxy(op, s) == op.fProxies[s + 1]
Filter(op, s) == op.fFilters[s + 1]

\* An op id that no TextureOp object occupies (before its creation).
NoOp ==
    [status |-> "none", request |-> 0, fDraws |-> <<>>, fColorSpaceXform |-> "null",
     fProxies |-> <<>>, fFilters |-> <<>>,
     fMaxApproxDstPixelArea |-> 0, fProxyCnt |-> 0, fAAType |-> "kNone",
     fPerspective |-> FALSE, fFinalized |-> FALSE, fAllowSRGBInputs |-> FALSE,
     fBounds |-> Rect(0, 0, 0, 0)]

\* TextureOp::TextureOp.  request, in the op and in its draw, is no field of the
\* code: it records the call of Make the op and the draw come from.
NewTextureOp(i) ==
    LET rq == Requests[i] IN
    [status |-> "live", request |-> i,
     fDraws |-> << [fSrcRect |-> rq.srcRect, fTextureIdx |-> 0,
                    fQuad |-> GrPerspQuad(rq.dstRect, rq.hasPerspective),
                    fColor |-> rq.color, request |-> i] >>,
     fColorSpaceXform |-> rq.csxf,
     fProxies |-> << rq.proxy >>,
     fFilters |-> << rq.filter >>,
     fMaxApproxDstPixelArea |-> RectSizeAsSizeT(rq.dstRect),
     fProxyCnt |-> 1,
     fAAType |-> rq.aaType,
     fPerspective |-> rq.hasPerspective,
     fFinalized |-> FALSE,
     fAllowSRGBInputs |-> rq.allowSRGBInputs,
     fBounds |-> QuadBounds(GrPerspQuad(rq.dstRect, rq.hasPerspective))]

NoRet == "none"

NoTarget == [op |-> 0, draws |-> <<>>, log |-> <<>>]

NoFault == [in |-> "none", how |-> "none"]

Running == fault = NoFault

\* A failed SkASSERT aborts a debug build; what a release build does past it is
\* undefined where the code then reads the wrong member of the union.  Either
\* way nothing of the program's state is defined any more: the model keeps none.
Dies(in) ==
    /\ fault' \in { [in |-> in, how |-> h] : h \in {"assert", "ub"} }
    /\ ops' = [o \in Ops |-> NoOp]
    /\ fRefCnt' = [t \in Tex |-> 0]
    /\ fPendingReads' = [t \in Tex |-> 0]
    /\ instantiated' = {}
    /\ flushing' = FALSE
    /\ ret' = NoRet
    /\ target' = NoTarget
    /\ UNCHANGED caps

Init ==
    /\ caps \in CapsSet
    /\ ops = [o \in Ops |-> NoOp]
    /\ fRefCnt = [t \in Tex |-> 0]
    /\ fPendingReads = [t \in Tex |-> 0]
    /\ instantiated \in {{}, Tex}
    /\ flushing = FALSE
    /\ ret = NoRet
    /\ target = NoTarget
    /\ fault = NoFault

\* What the op list does around the handlers.  Ops are recorded (made,
\* finalized, offered to each other, discarded) until the flush begins.  When
\* onCombineIfPossible returns true its caller deletes the absorbed op at once.
Exists(op) == op.status \in {"live", "absorbed", "prepared"}

Recording ==
    /\ Running
    /\ ~flushing
    /\ \A o \in Ops : ops[o].status # "absorbed"

\* The op ids are names only: an op gets an id that keeps the existing ops in
\* the order of their requests, so that of the runs that differ only in the
\* naming of the ops one is explored.
IdKeepsOrder(o, i) ==
    \A p \in Ops : Exists(ops[p]) =>
        /\ p < o => ops[p].request <= i
        /\ p > o => i <= ops[p].request

\* The flush prepares the finalized ops of the op list, in the order of the list.
Preparable(op) == op.status = "live" /\ op.fFinalized

\* GrTextureOp::Make: the op takes over the caller's reference to the proxy
\* (proxy.release()), which the model counts from the call on.
Make(o, i) ==
    /\ Recording
    /\ ops[o].status = "none"
    /\ IdKeepsOrder(o, i)
    /\ ops' = [ops EXCEPT ![o] = NewTextureOp(i)]
    /\ fRefCnt' = [fRefCnt EXCEPT ![Requests[i].proxy] = @ + 1]
    /\ ret' = NoRet
    /\ target' = NoTarget
    /\ UNCHANGED <<caps, fPendingReads, instantiated, flushing, fault>>

----------------------------------------------------------------------------
(* finalize.  Both SkASSERTs are preconditions the caller has to meet: a   *)
(* debug build aborts on them; a release build of a multi-texture op reads *)
(* fProxy0 from the union that now holds fProxyArray, which is undefined   *)
(* behaviour, and a second finalize of a single-texture op adds a second   *)
(* pending read and drops a reference the op no longer owns.               *)

\* finalize without its second assertion.
finalizeOkAnyCount(op) == ~op.fFinalized

finalizeOk(op) == ~op.fFinalized /\ op.fProxyCnt = 1

finalize(o) ==
    /\ Recording
    /\ ops[o].status = "live"
    /\ finalizeOk(ops[o])
    /\ ops' = [ops EXCEPT ![o].fFinalized = TRUE]
    /\ fPendingReads' = [fPendingReads EXCEPT ![Proxy(ops[o], 0)] = @ + 1]
    /\ fRefCnt' = [fRefCnt EXCEPT ![Proxy(ops[o], 0)] = @ - 1]
    /\ ret' = NoRet
    /\ target' = NoTarget
    /\ UNCHANGED <<caps, instantiated, flushing, fault>>

finalizeMisuse(o) ==
    /\ Recording
    /\ ops[o].status = "live"
    /\ ~finalizeOk(ops[o])
    /\ Dies("finalize")

----------------------------------------------------------------------------
(* mergeProxies                                                            *)

\* A first pass that compares the proxies slot by slot only.
FirstMatchSameSlot(this, that, i) ==
    IF i < that.fProxyCnt /\ Proxy(that, i) = Proxy(this, i) THEN i ELSE -1

\* The inner loop of the first pass: the first j whose proxy has the uniqueID
\* of this's proxy i, or -1.
FirstMatch(this, that, i) ==
    LET M == { j \in 0..(that.fProxyCnt - 1) : Proxy(that, j) = Proxy(this, i) }
    IN  IF M = {} THEN -1 ELSE CHOOSE j \in M : \A k \in M : j <= k

\* A first pass that compares the filters for this's slot 0 only.
FilterConflictSlot0(this, that) ==
    /\ FirstMatch(this, that, 0) >= 0
    /\ Filter(this, 0) # Filter(that, FirstMatch(this, that, 0))

\* The first pass finds a proxy of this in that with another filter.
FilterConflict(this, that) ==
    \E i \in 0..(this.fProxyCnt - 1) :
        /\ FirstMatch(this, that, i) >= 0
        /\ Filter(this, i) # Filter(that, FirstMatch(this, that, i))

\* A cap that leaves out the limit of the caps.
ActualMaxTexturesNoCaps(c) == kMaxTextures

\* int actualMaxTextures = SkTMin(caps.maxFragmentSamplers(), kMaxTextures)
ActualMaxTextures(c) == Min(c.maxFragmentSamplers, kMaxTextures)

\* Returns [cnt, map]: cnt < 0 when the ops must not combine, else the number of
\* proxies to add; map[j] >= 0 is the slot of this that that's proxy j already
\* has, map[j] < 0 the negated slot it is to be added at.  (The code's map has
\* kMaxTextures entries; those from that's fProxyCnt on are never read.)
mergeProxies(this, that, c) ==
    LET thisIdx == 0..(this.fProxyCnt - 1)
        thatIdx == 0..(that.fProxyCnt - 1)
        matched == { i \in thisIdx : FirstMatch(this, that, i) >= 0 }
        conflict == FilterConflict(this, that)
        shared(j) == { i \in matched : FirstMatch(this, that, i) = j }
        map1 == [ j \in thatIdx |->
                    IF shared(j) # {}
                    THEN CHOOSE i \in shared(j) : \A k \in shared(j) : k <= i
                    ELSE -kMaxTextures ]
        sharedProxyCnt == Cardinality(matched)
        actualMaxTextures == ActualMaxTextures(c)
        newProxyCnt == that.fProxyCnt - sharedProxyCnt
        config == Config(Proxy(this, 0))
        badConfig == \E j \in thatIdx : Config(Proxy(that, j)) # config
        badSampler == \E j \in thatIdx :
                        /\ Proxy(that, j) \in instantiated
                        /\ SamplerType(Proxy(that, j)) # "kTexture2DSampler"
        nextSlot(j) == this.fProxyCnt
                        + Cardinality({ k \in thatIdx : k < j /\ map1[k] < 0 })
        map2 == [ j \in thatIdx |-> IF map1[j] < 0 THEN -nextSlot(j) ELSE map1[j] ]
    IN  IF conflict THEN [cnt |-> -1, map |-> map1]
        ELSE IF newProxyCnt + this.fProxyCnt > actualMaxTextures
             THEN [cnt |-> -1, map |-> map1]
        ELSE IF badConfig \/ badSampler THEN [cnt |-> -1, map |-> map1]
        ELSE [cnt |-> newProxyCnt, map |-> map2]

----------------------------------------------------------------------------
(* onCombineIfPossible.  Combine gives the value returned, this as the     *)
(* call leaves it, and added: the proxies addPendingRead() is called on,   *)
(* in the order of the calls.                                              *)

\* The appended draws' indices shifted by this's proxy count, not mapped.
AppendDrawsOffset(this, that, map) ==
    this.fDraws \o [ k \in 1..Len(that.fDraws) |->
                       [that.fDraws[k] EXCEPT !.fTextureIdx = @ + this.fProxyCnt] ]

\* The appended draws' indices left as they were in that.
AppendDrawsUnmapped(this, that, map) == this.fDraws \o that.fDraws

\* that's draws put in front of this's.
AppendDrawsInFront(this, that, map) ==
    [ k \in 1..Len(that.fDraws) |-> [that.fDraws[k] EXCEPT !.fTextureIdx = map[@]] ]
    \o this.fDraws

\* fDraws.push_back_n(that's draws), then fTextureIdx = map[fTextureIdx] on each.
AppendDraws(this, that, map) ==
    this.fDraws \o [ k \in 1..Len(that.fDraws) |->
                       [that.fDraws[k] EXCEPT !.fTextureIdx = map[@]] ]

\* The single-texture branch appends the draws as they are.
KeepIdx(that) == [ j \in 0..(that.fProxyCnt - 1) |-> j ]

\* The tail of the handler, after either branch.
Joined(this, that) ==
    [this EXCEPT !.fBounds = JoinBounds(this.fBounds, that.fBounds),
                 !.fMaxApproxDstPixelArea =
                     Max(that.fMaxApproxDstPixelArea, this.fMaxApproxDstPixelArea),
                 !.fPerspective = this.fPerspective \/ that.fPerspective]

Refused(this) == [result |-> FALSE, this |-> this, added |-> <<>>]

\* The i-th smallest (i from 1) element of a set of integers.
Nth(S, i) == CHOOSE x \in S : Cardinality({ y \in S : y < x }) = i - 1

\* A loop over map that stores the new proxies without addPendingRead().
AddedNone(that, map) == <<>>

\* The proxies of that the loop over map calls addPendingRead() on: those with
\* a negative map entry, in the order of that's slots.
Added(that, map) ==
    LET new == { i \in 0..(that.fProxyCnt - 1) : map[i] < 0 }
    IN  [ k \in 1..Cardinality(new) |-> Proxy(that, Nth(new, k)) ]

CombineMulti(this, that, c) ==
    LET m == mergeProxies(this, that, c)
        thatIdx == 0..(that.fProxyCnt - 1)
        new == { i \in thatIdx : m.map[i] < 0 }
        map == [ j \in thatIdx |-> IF m.map[j] < 0 THEN -m.map[j] ELSE m.map[j] ]
        from(s) == CHOOSE i \in new : -m.map[i] = s
        cnt == this.fProxyCnt + m.cnt
        grown == [this EXCEPT
                    !.fProxyCnt = cnt,
                    !.fProxies = [ k \in 1..cnt |->
                        IF \E i \in new : -m.map[i] = k - 1
                        THEN Proxy(that, from(k - 1)) ELSE this.fProxies[k] ],
                    !.fFilters = [ k \in 1..cnt |->
                        IF \E i \in new : -m.map[i] = k - 1
                        THEN Filter(that, from(k - 1)) ELSE this.fFilters[k] ],
                    !.fDraws = AppendDraws(this, that, map)]
    IN  IF m.cnt < 0
        THEN Refused(this)
        ELSE [result |-> TRUE, this |-> Joined(grown, that),
              added |-> Added(that, m.map)]

\* A single-texture branch that appends the draws before it compares the
\* proxies and filters.
CombineSingleAppendsFirst(this, that) ==
    LET appended == [this EXCEPT !.fDraws = AppendDraws(this, that, KeepIdx(that))]
    IN  IF this.fProxyCnt > 1 \/ that.fProxyCnt > 1
        THEN Refused(this)
        ELSE IF Proxy(this, 0) # Proxy(that, 0) \/ Filter(this, 0) # Filter(that, 0)
        THEN Refused(appended)
        ELSE [result |-> TRUE, this |-> Joined(appended, that), added |-> <<>>]

\* A single-texture branch whose first test reads that->fProxyCnt >= 1.
CombineSingleOffByOne(this, that) ==
    IF this.fProxyCnt > 1 \/ that.fProxyCnt >= 1
    THEN Refused(this)
    ELSE [result |-> TRUE,
          this |-> Joined([this EXCEPT !.fDraws = AppendDraws(this, that, KeepIdx(that))],
                          that),
          added |-> <<>>]

CombineSingle(this, that) ==
    IF this.fProxyCnt > 1 \/ that.fProxyCnt > 1
    THEN Refused(this)
    ELSE IF Proxy(this, 0) # Proxy(that, 0) \/ Filter(this, 0) # Filter(that, 0)
    THEN Refused(this)
    ELSE [result |-> TRUE,
          this |-> Joined([this EXCEPT !.fDraws = AppendDraws(this, that, KeepIdx(that))],
                          that),
          added |-> <<>>]

\* A condition that tests this's area only.
MultitexturePathThisArea(this, that, c) ==
    /\ SupportsMultitexture(c)
    /\ this.fColorSpaceXform = "null"
    /\ this.fMaxApproxDstPixelArea <= c.areaThreshold

\* The condition of the multi-texture branch.
MultitexturePath(this, that, c) ==
    /\ SupportsMultitexture(c)
    /\ this.fColorSpaceXform = "null"
    /\ this.fMaxApproxDstPixelArea <= c.areaThreshold
    /\ that.fMaxApproxDstPixelArea <= c.areaThreshold

\* A handler without the comparison of the AA types.
CombineAnyAA(this, that, c) ==
    IF this.fColorSpaceXform # that.fColorSpaceXform
    THEN Refused(this)
    ELSE IF MultitexturePath(this, that, c)
    THEN CombineMulti(this, that, c)
    ELSE CombineSingle(this, that)

Combine(this, that, c) ==
    IF this.fColorSpaceXform # that.fColorSpaceXform
    THEN Refused(this)
    ELSE IF this.fAAType # that.fAAType
    THEN Refused(this)
    ELSE IF MultitexturePath(this, that, c)
    THEN CombineMulti(this, that, c)
    ELSE CombineSingle(this, that)

\* How often proxy t occurs in the sequence s of proxies.
Count(s, t) == Cardinality({ k \in 1..Len(s) : s[k] = t })

\* The recording pass offers a live op (this) another live op (that).  When the
\* call returns true the caller deletes that, which from then on takes part in
\* nothing but its destruction.
onCombineIfPossible(a, b) ==
    /\ Recording
    /\ a # b
    /\ ops[a].status = "live"
    /\ ops[b].status = "live"
    /\ LET r == Combine(ops[a], ops[b], caps)
       IN  /\ ops' = [ops EXCEPT ![a] = r.this,
                                 ![b].status = IF r.result THEN "absorbed" ELSE @]
           /\ fPendingReads' = [ t \in Tex |-> fPendingReads[t] + Count(r.added, t) ]
           /\ ret' = IF r.result THEN "merged" ELSE "refused"
    /\ target' = NoTarget
    /\ UNCHANGED <<caps, fRefCnt, instantiated, flushing, fault>>

----------------------------------------------------------------------------
(* ~TextureOp                                                              *)

\* A destructor that completes the read of fProxy0 only.
DestructorReadsSlot0(op) ==
    IF op.fFinalized THEN << Proxy(op, 0) >> ELSE <<>>

\* The proxies completedRead() is called on.
DestructorReads(op) ==
    IF op.fFinalized THEN [ k \in 1..op.fProxyCnt |-> Proxy(op, k - 1) ] ELSE <<>>

\* A destructor without the unref() of its else branch.
DestructorUnrefsNone(op) == <<>>

\* The proxies unref() is called on.
DestructorUnrefs(op) ==
    IF op.fFinalized THEN <<>> ELSE << Proxy(op, 0) >>

\* SkASSERT(1 == fProxyCnt) on the branch of an op that was not finalized.
destructorOk(op) == op.fFinalized \/ op.fProxyCnt = 1

\* The caller deletes an absorbed op before it does anything else, and the
\* flush deletes the ops once it has prepared all of them.
MayDestroy(o) ==
    /\ Running
    /\ Exists(ops[o])
    /\ \A p \in Ops : ops[p].status = "absorbed" => p = o
    /\ flushing => \A p \in Ops : ~Preparable(ops[p])

destroy(o) ==
    /\ MayDestroy(o)
    /\ destructorOk(ops[o])
    /\ fPendingReads' = [ t \in Tex |->
                            fPendingReads[t] - Count(DestructorReads(ops[o]), t) ]
    /\ fRefCnt' = [ t \in Tex |-> fRefCnt[t] - Count(DestructorUnrefs(ops[o]), t) ]
    /\ ops' = [ops EXCEPT ![o] = [NoOp EXCEPT !.status = "destroyed"]]
    /\ ret' = IF ops[o].fFinalized THEN NoRet ELSE "discarded"
    /\ target' = NoTarget
    /\ UNCHANGED <<caps, instantiated, flushing, fault>>

\* An op that was not finalized and has several proxies: a debug build aborts on
\* the SkASSERT; a release build calls unref() through fProxy0, which shares its
\* storage with fProxyArray and so points at the array, not at a proxy.
destroyMisuse(o) ==
    /\ MayDestroy(o)
    /\ ~destructorOk(ops[o])
    /\ Dies("~TextureOp")

----------------------------------------------------------------------------
(* Vertex arithmetic.  A float is a pair <<n, d>>: the rational n/d in lowest *)
(* terms when d > 0, and with d = 0 an infinity (n = 1, n = -1) or a NaN      *)
(* (n = 0).  Sums and products are exact (no rounding, and rsqrt is the exact *)
(* reciprocal root); the sign of a zero is not kept, so 1/0 is +infinity.     *)

Abs(n) == IF n < 0 THEN -n ELSE n

Sign(n) == IF n < 0 THEN -1 ELSE IF n > 0 THEN 1 ELSE 0

RECURSIVE GCD(_, _)
GCD(m, n) == IF n = 0 THEN m ELSE GCD(n, m % n)

Norm(n, d) ==
    IF d = 0 THEN <<Sign(n), 0>>
    ELSE LET g == GCD(Abs(n), Abs(d))
         IN  <<(Sign(d) * n) \div g, Abs(d) \div g>>

\* An integer as a float.
F(n) == <<n, 1>>

NaN == <<0, 0>>

IsFinite(q) == q[2] # 0

FNeg(q) == <<-q[1], q[2]>>

FAdd(p, q) ==
    IF p[2] = 0 /\ q[2] = 0
    THEN (IF p = q THEN p ELSE NaN)
    ELSE Norm(p[1] * q[2] + q[1] * p[2], p[2] * q[2])

FSub(p, q) == FAdd(p, FNeg(q))

FMul(p, q) == Norm(p[1] * q[1], p[2] * q[2])

\* operator<: false when either side is a NaN.
FLess(p, q) ==
    IF p = NaN \/ q = NaN THEN FALSE
    ELSE IF p[2] = 0 \/ q[2] = 0
    THEN (IF p[2] = 0 THEN p[1] ELSE 0) < (IF q[2] = 0 THEN q[1] ELSE 0)
    ELSE p[1] * q[2] < q[1] * p[2]

\* Sk4f::invert, one lane
FInvert(q) == Norm(q[2], q[1])

\* The root of a square number.
ISqrt(n) == CHOOSE r \in 0..n : r * r = n

\* Sk4f::rsqrt, one lane: the edges the model meets have rational lengths.
FRsqrt(q) ==
    IF q[2] = 0 THEN (IF q[1] = 1 THEN F(0) ELSE NaN)
    ELSE IF q[1] < 0 THEN NaN
    ELSE Norm(ISqrt(q[2]), ISqrt(q[1]))

\* Lane-wise operations on Sk4f, a tuple of four floats.
Lanes == 1..4
V4Add(u, v) == [i \in Lanes |-> FAdd(u[i], v[i])]
V4Sub(u, v) == [i \in Lanes |-> FSub(u[i], v[i])]
V4Mul(u, v) == [i \in Lanes |-> FMul(u[i], v[i])]
V4Neg(u) == [i \in Lanes |-> FNeg(u[i])]
\* SkNx_fma: f * m + a
fma(f, m, a) == V4Add(V4Mul(f, m), a)

\* SkNx_shuffle<2, 0, 3, 1> and SkNx_shuffle<1, 3, 0, 2>
nextCW(v) == <<v[3], v[1], v[4], v[2]>>
nextCCW(v) == <<v[2], v[4], v[1], v[3]>>

\* The edge normals without the test of their direction.
FacingInNever(test) == FALSE

\* "Make sure the edge equations have their normals facing into the quad":
\* whether the normalisation factor is negated.
FacingOut(test) == \E i \in Lanes : FLess(test[i], F(0))

\* The edge from each point to the next one counterclockwise, before it is
\* normalised: a, b and c as first assigned.
EdgeEquations(x, y) ==
    [a |-> V4Sub(nextCCW(y), y),
     b |-> V4Sub(x, nextCCW(x)),
     c |-> fma(nextCCW(x), y, V4Neg(V4Mul(nextCCW(y), x)))]

\* invNormLengths, negated where an edge is negative at the point before it.
InvNormLengths(x, y, e) ==
    LET lengths ==
            [i \in Lanes |-> FRsqrt(FAdd(FMul(e.a[i], e.a[i]), FMul(e.b[i], e.b[i])))]
    IN  IF FacingOut(fma(e.a, nextCW(x), fma(e.b, nextCW(y), e.c)))
        THEN V4Neg(lengths) ELSE lengths

\* The edges scaled by invNormLengths, and "here is the outset": c += 0.5.
OutsetEdges(e, invNormLengths) ==
    [a |-> V4Mul(e.a, invNormLengths),
     b |-> V4Mul(e.b, invNormLengths),
     c |-> [i \in Lanes |-> FAdd(FMul(e.c[i], invNormLengths[i]), <<1, 2>>)]]

\* "Reverse the process to compute the points of the bloated quad from the
\* edge equations": each point is where an edge meets the next one clockwise.
OutsetPoints(e) ==
    LET ic == [i \in Lanes |->
                 FInvert(fma(nextCW(e.a), e.b, V4Neg(V4Mul(nextCW(e.b), e.a)))[i])]
    IN  [x |-> V4Mul(fma(nextCW(e.b), e.c, V4Neg(V4Mul(e.b, nextCW(e.c)))), ic),
         y |-> V4Mul(fma(e.a, nextCW(e.c), V4Neg(V4Mul(nextCW(e.a), e.c))), ic),
         a |-> e.a, b |-> e.b, c |-> e.c]

\* compute_quad_edges_and_outset_vertices: from the four points x, y (in
\* triangle strip order) the edge equations a, b, c and the outset points.
compute_quad_edges_and_outset_vertices(x, y) ==
    OutsetPoints(OutsetEdges(EdgeEquations(x, y),
                             InvNormLengths(x, y, EdgeEquations(x, y))))

----------------------------------------------------------------------------
(* onPrepareDraws                                                          *)

\* SkNextPow2: the smallest power of two that is at least n.
SkNextPow2(n) ==
    CHOOSE p \in { 2^k : k \in 0..8 } :
        p >= n /\ \A q \in { 2^k : k \in 0..8 } : q >= n => p <= q

\* A count that is rounded to the next power of two only.
NumSamplersToUsePow2(numRealProxies, c) ==
    IF numRealProxies = 1 THEN 1
    ELSE Min(SkNextPow2(numRealProxies), Min(kMaxTextures, c.maxFragmentSamplers))

\* TextureGeometryProcessor::NumSamplersToUse
NumSamplersToUse(numRealProxies, c) ==
    IF numRealProxies = 1 THEN 1
    ELSE IF numRealProxies <= 4 THEN 4
    ELSE Min(SkNextPow2(numRealProxies), Min(kMaxTextures, c.maxFragmentSamplers))

\* TextureGeometryProcessor::Make and the constructor: the processor's samplers
\* (the real proxies, then copies of the last one) and its vertex attributes.
MakeGeometryProcessor(op, c) ==
    LET samplerCnt == NumSamplersToUse(op.fProxyCnt, c)
    IN  [samplers |-> [ k \in 1..samplerCnt |->
                          IF k <= op.fProxyCnt
                          THEN [proxy |-> op.fProxies[k], filter |-> op.fFilters[k]]
                          ELSE [proxy |-> op.fProxies[op.fProxyCnt],
                                filter |-> op.fFilters[op.fProxyCnt]] ],
         proxyCnt |-> op.fProxyCnt,
         colorSpaceXform |-> op.fColorSpaceXform,
         coverageAA |-> op.fAAType = "kCoverage",
         perspective |-> op.fPerspective,
         hasTextureIdx |-> samplerCnt > 1]

\* GrPipeline::InitArgs::fFlags
PipelineFlags(op) ==
    (IF op.fAllowSRGBInputs THEN {"kAllowSRGBInputs_Flag"} ELSE {})
    \cup (IF op.fAAType = "kMSAA" THEN {"kHWAntialias_Flag"} ELSE {})

\* The determinant of the 3x3 matrix with the rows r1, r2, r3.
Det3(r1, r2, r3) ==
    LET M2(p, q, r, t) == FSub(FMul(p, t), FMul(q, r))
    IN  FAdd(FSub(FMul(r1[1], M2(r2[2], r2[3], r3[2], r3[3])),
                  FMul(r1[2], M2(r2[1], r2[3], r3[1], r3[3]))),
             FMul(r1[3], M2(r2[1], r2[2], r3[1], r3[2])))

\* SkMatrix::invert: whether the matrix has an inverse.
Invertible(r1, r2, r3) == Det3(r1, r2, r3) # F(0)

\* The quad as Sk4f values: x4f(), y4f(), w4f().
QuadX(quad) == [i \in Lanes |-> F(quad.fX[i])]
QuadY(quad) == [i \in Lanes |-> F(quad.fY[i])]
QuadW(quad) == [i \in Lanes |-> F(quad.fW[i])]

\* The device space points of the perspective handler: x *= iw, y *= iw.
DeviceX(quad) == [i \in Lanes |-> FMul(QuadX(quad)[i], FInvert(QuadW(quad)[i]))]
DeviceY(quad) == [i \in Lanes |-> FMul(QuadY(quad)[i], FInvert(QuadW(quad)[i]))]

\* The rows of P in VertexAAHandler<Vertex, GrAA::kYes, SkPoint3>.
PRows(quad) ==
    [k \in 1..3 |-> <<DeviceX(quad)[k], DeviceY(quad)[k], F(1)>>]

\* SkAssertResult(P.invert(&P))
PInvertible(quad) == Invertible(PRows(quad)[1], PRows(quad)[2], PRows(quad)[3])

\* M with column j replaced by v, as rows.
PutColumn(M, j, v) ==
    [k \in 1..3 |-> [c \in 1..3 |-> IF c = j THEN v[k] ELSE M[k][c]]]

\* SkMatrix::invert and mapHomogeneousPoints: the inverse of M applied to v.
MapByInverse(M, v) ==
    [j \in 1..3 |->
        FMul(Det3(PutColumn(M, j, v)[1], PutColumn(M, j, v)[2], PutColumn(M, j, v)[3]),
             FInvert(Det3(M[1], M[2], M[3])))]

\* SkMatrix::mapHomogeneousPoints: M applied to v.
MapHomogeneous(M, v) ==
    [k \in 1..3 |->
        FAdd(FAdd(FMul(M[k][1], v[1]), FMul(M[k][2], v[2])), FMul(M[k][3], v[3]))]

\* "Get an equation for w from device space coords": P inverted and applied to
\* (w0, w1, w2).  Where P has no inverse, invert leaves P as it is and a build
\* without assertions applies P itself.
WEquation(quad) ==
    IF PInvertible(quad)
    THEN MapByInverse(PRows(quad), <<QuadW(quad)[1], QuadW(quad)[2], QuadW(quad)[3]>>)
    ELSE MapHomogeneous(PRows(quad), <<QuadW(quad)[1], QuadW(quad)[2], QuadW(quad)[3]>>)

\* "Compute new w values for the output vertices" and x *= w, y *= w: the
\* positions of the perspective handler from the outset points e.
HomogeneousPositions(e, weq) ==
    [i \in Lanes |->
        << FMul(e.x[i], FAdd(FAdd(FMul(weq[1], e.x[i]), FMul(weq[2], e.y[i])), weq[3])),
           FMul(e.y[i], FAdd(FAdd(FMul(weq[1], e.x[i]), FMul(weq[2], e.y[i])), weq[3])),
           FAdd(FAdd(FMul(weq[1], e.x[i]), FMul(weq[2], e.y[i])), weq[3]) >>]

\* The positions of the handler without perspective from the outset points e.
DevicePositions(e) == [i \in Lanes |-> <<e.x[i], e.y[i]>>]

\* The rows of q in the two AssignTexCoords.
QRows2D(quad) ==
    << <<QuadX(quad)[1], QuadX(quad)[2], QuadX(quad)[3]>>,
       <<QuadY(quad)[1], QuadY(quad)[2], QuadY(quad)[3]>>,
       <<F(1), F(1), F(1)>> >>
QRows3D(quad) ==
    << <<QuadX(quad)[1], QuadX(quad)[2], QuadX(quad)[3]>>,
       <<QuadY(quad)[1], QuadY(quad)[2], QuadY(quad)[3]>>,
       <<QuadW(quad)[1], QuadW(quad)[2], QuadW(quad)[3]>> >>

\* AssignTexCoords: the texture coordinates are written unless q has no
\* inverse ("unset": what the vertex space held before).
AssignTexCoords(q) ==
    IF Invertible(q[1], q[2], q[3]) THEN "assigned" ELSE "unset"

\* VertexAAHandler<Vertex>::AssignPositionsAndTexCoords, one of the four by the
\* vertex type: the positions of the four vertices (two or three coordinates)
\* and whether their texture coordinates were written.
AssignPositionsAndTexCoords(coverageAA, perspective, quad) ==
    IF ~coverageAA /\ ~perspective
    THEN [fPosition |-> [i \in Lanes |-> <<QuadX(quad)[i], QuadY(quad)[i]>>],
          fTextureCoords |-> "assigned"]
    ELSE IF ~coverageAA
    THEN [fPosition |->
              [i \in Lanes |-> <<QuadX(quad)[i], QuadY(quad)[i], QuadW(quad)[i]>>],
          fTextureCoords |-> "assigned"]
    ELSE IF ~perspective
    THEN [fPosition |->
              DevicePositions(
                  compute_quad_edges_and_outset_vertices(QuadX(quad), QuadY(quad))),
          fTextureCoords |-> AssignTexCoords(QRows2D(quad))]
    ELSE [fPosition |->
              HomogeneousPositions(
                  compute_quad_edges_and_outset_vertices(DeviceX(quad), DeviceY(quad)),
                  WEquation(quad)),
          fTextureCoords |-> AssignTexCoords(QRows3D(quad))]

\* The SkASSERTs of the handler chosen for the op hold for the quad.
TessellateOk(coverageAA, perspective, quad) ==
    /\ ~perspective => \A i \in Lanes : quad.fW[i] = 1
    /\ (coverageAA /\ perspective) => PInvertible(quad)

\* The quads of the draws there can be.
DrawnQuads ==
    { GrPerspQuad(Requests[i].dstRect, Requests[i].hasPerspective) :
        i \in 1..Len(Requests) }

\* tessellate_quad<Vertex> for every vertex type and quad: what the handler
\* writes (verts) and whether its assertions hold (ok).
tessellate_quad ==
    [ coverageAA \in BOOLEAN, perspective \in BOOLEAN, quad \in DrawnQuads |->
        [verts |-> AssignPositionsAndTexCoords(coverageAA, perspective, quad),
         ok |-> TessellateOk(coverageAA, perspective, quad)] ]

\* TESS_VERTS: four vertices per draw, in the order of fDraws.  A vertex is
\* given here by the draw and the corner it comes from, its position, whether
\* its texture coordinates were written, its colour and the texture index
\* TexIdAssigner writes (-1: the vertex type has no such field).
TessVerts(op) ==
    [ v \in 1..(4 * Len(op.fDraws)) |->
        LET draw == op.fDraws[((v - 1) \div 4) + 1]
            quad == tessellate_quad[op.fAAType = "kCoverage", op.fPerspective,
                                    draw.fQuad].verts
        IN  [fQuad |-> draw.fQuad, corner |-> (v - 1) % 4,
             fPosition |-> quad.fPosition[((v - 1) % 4) + 1],
             fTextureCoords |-> quad.fTextureCoords,
             fColor |-> draw.fColor,
             fTextureIdx |-> IF op.fProxyCnt = 1 THEN -1 ELSE draw.fTextureIdx] ]

\* A mesh whose index pattern is not repeated per draw.
MakeMeshOnePattern(op) ==
    [primitiveType |-> IF Len(op.fDraws) > 1 THEN "kTriangles" ELSE "kTriangleStrip",
     vertices |-> TessVerts(op),
     indexCount |-> IF Len(op.fDraws) > 1 THEN 6 ELSE 0]

\* The mesh: primitive type, vertices, and the number of indices drawn (0 for
\* the non-indexed strip; the 6-index quad pattern repeated once per draw).
MakeMesh(op) ==
    [primitiveType |-> IF Len(op.fDraws) > 1 THEN "kTriangles" ELSE "kTriangleStrip",
     vertices |-> TessVerts(op),
     indexCount |-> IF Len(op.fDraws) > 1 THEN 6 * Len(op.fDraws) ELSE 0]

\* A handler that returns for want of vertex space without printing.
PrepareDrawsQuietVertices(op, failSlot, vdata, ibuffer, c) ==
    LET done == { Proxy(op, s) : s \in 0..(Min(failSlot, op.fProxyCnt) - 1) }
    IN  IF failSlot < op.fProxyCnt
        THEN [instantiated |-> done, draws |-> <<>>, log |-> <<>>, moved |-> FALSE]
        ELSE IF ~vdata
        THEN [instantiated |-> done, draws |-> <<>>, log |-> <<>>, moved |-> TRUE]
        ELSE IF Len(op.fDraws) > 1 /\ ~ibuffer
        THEN [instantiated |-> done, draws |-> <<>>,
              log |-> << "Could not allocate quad indices" >>, moved |-> TRUE]
        ELSE [instantiated |-> done,
              draws |-> << [gp |-> MakeGeometryProcessor(op, c),
                            flags |-> PipelineFlags(op), mesh |-> MakeMesh(op)] >>,
              log |-> <<>>, moved |-> TRUE]

\* A handler that prints when there is no quad index buffer and draws all the
\* same.
PrepareDrawsNoIndexReturn(op, failSlot, vdata, ibuffer, c) ==
    LET done == { Proxy(op, s) : s \in 0..(Min(failSlot, op.fProxyCnt) - 1) }
    IN  IF failSlot < op.fProxyCnt
        THEN [instantiated |-> done, draws |-> <<>>, log |-> <<>>, moved |-> FALSE]
        ELSE IF ~vdata
        THEN [instantiated |-> done, draws |-> <<>>,
              log |-> << "Could not allocate vertices" >>, moved |-> TRUE]
        ELSE [instantiated |-> done,
              draws |-> << [gp |-> MakeGeometryProcessor(op, c),
                            flags |-> PipelineFlags(op), mesh |-> MakeMesh(op)] >>,
              log |-> IF Len(op.fDraws) > 1 /\ ~ibuffer
                      THEN << "Could not allocate quad indices" >> ELSE <<>>,
              moved |-> TRUE]

\* The handler, given the first slot whose instantiate() fails (fProxyCnt: none
\* does) and whether the vertex space and the quad index buffer are to be had.
\* Gives the proxies it instantiated, the draws handed to the target, the lines
\* printed and whether fColorSpaceXform was moved from.
PrepareDraws(op, failSlot, vdata, ibuffer, c) ==
    LET done == { Proxy(op, s) : s \in 0..(Min(failSlot, op.fProxyCnt) - 1) }
    IN  IF failSlot < op.fProxyCnt
        THEN [instantiated |-> done, draws |-> <<>>, log |-> <<>>, moved |-> FALSE]
        ELSE IF ~vdata
        THEN [instantiated |-> done, draws |-> <<>>,
              log |-> << "Could not allocate vertices" >>, moved |-> TRUE]
        ELSE IF Len(op.fDraws) > 1 /\ ~ibuffer
        THEN [instantiated |-> done, draws |-> <<>>,
              log |-> << "Could not allocate quad indices" >>, moved |-> TRUE]
        ELSE [instantiated |-> done,
              draws |-> << [gp |-> MakeGeometryProcessor(op, c),
                            flags |-> PipelineFlags(op), mesh |-> MakeMesh(op)] >>,
              log |-> <<>>, moved |-> TRUE]

\* The flush prepares the next op that was finalized and is still in the op
\* list; afterwards the op is only destroyed.
onPrepareDraws(o) ==
    /\ Running
    /\ \A p \in Ops : ops[p].status # "absorbed"
    /\ Preparable(ops[o])
    /\ \A p \in Ops : p < o => ~Preparable(ops[p])
    /\ \E failSlot \in 0..ops[o].fProxyCnt, vdata \in BOOLEAN, ibuffer \in BOOLEAN :
         /\ failSlot < ops[o].fProxyCnt => Proxy(ops[o], failSlot) \notin instantiated
         /\ LET r == PrepareDraws(ops[o], failSlot, vdata, ibuffer, caps)
            IN  /\ instantiated' = instantiated \cup r.instantiated
                /\ target' = [op |-> o, draws |-> r.draws, log |-> r.log]
                /\ ops' = [ops EXCEPT ![o].status = "prepared",
                                      ![o].fColorSpaceXform =
                                          IF r.moved THEN "null" ELSE @]
    /\ flushing' = TRUE
    /\ ret' = NoRet
    /\ UNCHANGED <<caps, fRefCnt, fPendingReads, fault>>

\* The flush prepares an op one of whose quads fails an assertion of
\* tessellate_quad, in a build that has assertions: the proxies are instantiated
\* and the vertex space is there, and the build stops.  (A build without them
\* goes on: onPrepareDraws above.)
onPrepareDrawsAsserts(o) ==
    /\ Running
    /\ \A p \in Ops : ops[p].status # "absorbed"
    /\ Preparable(ops[o])
    /\ \A p \in Ops : p < o => ~Preparable(ops[p])
    /\ \E k \in 1..Len(ops[o].fDraws) :
          ~tessellate_quad[ops[o].fAAType = "kCoverage", ops[o].fPerspective,
                           ops[o].fDraws[k].fQuad].ok
    /\ fault' = [in |-> "tessellate_quad", how |-> "assert"]
    /\ ops' = [p \in Ops |-> NoOp]
    /\ fRefCnt' = [t \in Tex |-> 0]
    /\ fPendingReads' = [t \in Tex |-> 0]
    /\ instantiated' = {}
    /\ flushing' = FALSE
    /\ ret' = NoRet
    /\ target' = NoTarget
    /\ UNCHANGED caps

Next ==
    \/ \E o \in Ops, i \in 1..Len(Requests) : Make(o, i)
    \/ \E o \in Ops : finalize(o)
    \/ \E o \in Ops : finalizeMisuse(o)
    \/ \E a, b \in Ops : onCombineIfPossible(a, b)
    \/ \E o \in Ops : onPrepareDraws(o)
    \/ \E o \in Ops : onPrepareDrawsAsserts(o)
    \/ \E o \in Ops : destroy(o)
    \/ \E o \in Ops : destroyMisuse(o)

Spec == Init /\ [][Next]_vars

----------------------------------------------------------------------------
(* NumSamplersToUse on its own: the function called with any count, under  *)
(* any limit of the caps.  ret holds the argument and the value returned.  *)

\* Largest maxFragmentSamplers of the caps the function is called with.
MaxSamplers == 16
\* Largest numRealProxies the function is called with.
MaxRequested == 9

SamplerCaps ==
    { [integerSupport |-> TRUE, maxFragmentSamplers |-> m, areaThreshold |-> 8] :
        m \in 1..MaxSamplers }

NoCall == [numRealProxies |-> 0, samplers |-> 0]

InitSamplers ==
    /\ caps \in SamplerCaps
    /\ ops = [o \in Ops |-> NoOp]
    /\ fRefCnt = [t \in Tex |-> 0]
    /\ fPendingReads = [t \in Tex |-> 0]
    /\ instantiated = {}
    /\ flushing = FALSE
    /\ ret = NoCall
    /\ target = NoTarget
    /\ fault = NoFault

\* The SkASSERT at the head of the function.
NumSamplersToUseOk(numRealProxies, c) ==
    /\ numRealProxies > 0
    /\ numRealProxies <= kMaxTextures
    /\ numRealProxies <= c.maxFragmentSamplers

\* The call returns: the assertion holds, or the build has none.
CallNumSamplersToUse(n) ==
    /\ Running
    /\ ret' = [numRealProxies |-> n, samplers |-> NumSamplersToUse(n, caps)]
    /\ UNCHANGED <<caps, ops, fRefCnt, fPendingReads, instantiated, flushing,
                   target, fault>>

\* The assertion fails in a build that has it: no value is returned.
NumSamplersToUseAsserts(n) ==
    /\ Running
    /\ ~NumSamplersToUseOk(n, caps)
    /\ fault' = [in |-> "NumSamplersToUse", how |-> "assert"]
    /\ ret' = [numRealProxies |-> n, samplers |-> 0]
    /\ UNCHANGED <<caps, ops, fRefCnt, fPendingReads, instantiated, flushing, target>>

NextSamplers ==
    \/ \E n \in 1..MaxRequested : CallNumSamplersToUse(n)
    \/ \E n \in 1..MaxRequested : NumSamplersToUseAsserts(n)

SpecSamplers == InitSamplers /\ [][NextSamplers]_vars

----------------------------------------------------------------------------
(* compute_quad_edges_and_outset_vertices on its own: the function called   *)
(* with the device space points of a quad, in triangle strip order.  ret    *)
(* holds the points passed in and what the function left in x, y, a, b, c.  *)

\* Largest factor an edge direction is scaled by.
MaxQuadScale == 2

\* Edge directions of integer length.
Directions ==
    { <<1, 0>>, <<0, 1>>, <<3, 4>>, <<4, 3>>, <<-3, 4>>, <<-4, 3>>,
      <<5, 12>>, <<12, 5>>, <<-5, 12>>, <<-12, 5>> }

Edges == { <<k * d[1], k * d[2]>> : k \in 1..MaxQuadScale, d \in Directions }

\* The image of a rectangle under a matrix without perspective: from one corner
\* along u and along v (u = v gives a quad without area; swapping u and v
\* gives the other winding).
Parallelogram(u, v) ==
    [x |-> <<0, u[1], v[1], u[1] + v[1]>>, y |-> <<0, u[2], v[2], u[2] + v[2]>>]

\* Images of a rectangle under a matrix with perspective, which keeps no
\* parallels and, where w changes its sign inside the rectangle, not even
\* convexity: a kite and a dart with sides 15, 13, 13, 15, in both windings.
Kite(k) == [x |-> <<0, -12 * k, 12 * k, 0>>, y |-> <<9 * k, 0, 0, -5 * k>>]
Dart(k) == [x |-> <<0, -12 * k, 12 * k, 0>>, y |-> <<4 * k, -5 * k, -5 * k, 0>>]
OtherWinding(q) ==
    [x |-> <<q.x[1], q.x[3], q.x[2], q.x[4]>>, y |-> <<q.y[1], q.y[3], q.y[2], q.y[4]>>]

Quads ==
    { Parallelogram(u, v) : u \in Edges, v \in Edges }
    \cup { Kite(k) : k \in 1..MaxQuadScale }
    \cup { Dart(k) : k \in 1..MaxQuadScale }
    \cup { OtherWinding(Kite(k)) : k \in 1..MaxQuadScale }
    \cup { OtherWinding(Dart(k)) : k \in 1..MaxQuadScale }

NoQuad == [x |-> <<>>, y |-> <<>>, out |-> <<>>]

\* The function reads no caps: one value stands for all.
InitQuads ==
    /\ caps = [integerSupport |-> TRUE, maxFragmentSamplers |-> 8, areaThreshold |-> 8]
    /\ ops = [o \in Ops |-> NoOp]
    /\ fRefCnt = [t \in Tex |-> 0]
    /\ fPendingReads = [t \in Tex |-> 0]
    /\ instantiated = {}
    /\ flushing = FALSE
    /\ ret = NoQuad
    /\ target = NoTarget
    /\ fault = NoFault

\* One call in a run: the function keeps nothing from call to call.
CallComputeQuadEdges(q) ==
    /\ Running
    /\ ret = NoQuad
    /\ ret' = [x |-> q.x, y |-> q.y,
               out |-> compute_quad_edges_and_outset_vertices(
                           [i \in Lanes |-> F(q.x[i])], [i \in Lanes |-> F(q.y[i])])]
    /\ UNCHANGED <<caps, ops, fRefCnt, fPendingReads, instantiated, flushing,
                   target, fault>>

NextQuads == \E q \in Quads : CallComputeQuadEdges(q)

SpecQuads == InitQuads /\ [][NextQuads]_vars

----------------------------------------------------------------------------
(* Properties.                                                             *)

\* The pairs (this, that) of ops the recording pass can offer to each other.
MergeCandidates ==
    { pr \in Ops \X Ops :
        pr[1] # pr[2] /\ ops[pr[1]].status = "live" /\ ops[pr[2]].status = "live" }

ExistingOps == { o \in Ops : Exists(ops[o]) }

SlotsOf(op) == 0..(op.fProxyCnt - 1)

\* The slots of existing ops that hold proxy t and satisfy P.
SlotsHolding(t, P(_, _)) ==
    { os \in Ops \X (0..(kMaxTextures - 1)) :
        /\ Exists(ops[os[1]])
        /\ os[2] \in SlotsOf(ops[os[1]])
        /\ Proxy(ops[os[1]], os[2]) = t
        /\ P(ops[os[1]], os[2]) }

\* The slot's pending read was taken: by finalize for slot 0, by the merge that
\* appended it for the others.
ReadTaken(op, s) == op.fFinalized \/ s >= 1

NoCounts == \A t \in Tex : fRefCnt[t] = 0 /\ fPendingReads[t] = 0

\* that's proxy is instantiated with a sampler type other than the 2D one.
ForeignSampler(op) ==
    \E s \in SlotsOf(op) :
        Proxy(op, s) \in instantiated /\ SamplerType(Proxy(op, s)) # "kTexture2DSampler"

\* C1: when onCombineIfPossible returns false, whatever the failing condition,
\* both ops are as before the call (draws, proxies and filters, proxy count,
\* bounds, area, perspective), and no proxy's reference count or pending-read
\* count has changed.
C1_RefusedMergeChangesNothing ==
    [][ ret' = "refused" =>
          /\ ops' = ops
          /\ fRefCnt' = fRefCnt
          /\ fPendingReads' = fPendingReads ]_vars

\* A merge was refused between a multi-texture op and an op that uses one of
\* its textures with another filter, the only two ops there are.
C1_Witness ==
    /\ ret = "refused"
    /\ \E pr \in MergeCandidates :
         /\ ExistingOps = {pr[1], pr[2]}
         /\ ops[pr[1]].fProxyCnt > 1
         /\ FilterConflict(ops[pr[1]], ops[pr[2]])

\* C2: every draw of every op has a texture index i with 0 <= i < fProxyCnt, and
\* no vertex handed to the target has a texture index that selects a padding
\* sampler (one from the processor's proxyCnt on).
C2_TextureIndexValid ==
    /\ \A o \in ExistingOps : \A k \in 1..Len(ops[o].fDraws) :
         ops[o].fDraws[k].fTextureIdx \in SlotsOf(ops[o])
    /\ \A d \in 1..Len(target.draws) :
         target.draws[d].gp.hasTextureIdx =>
            \A v \in 1..Len(target.draws[d].mesh.vertices) :
               target.draws[d].mesh.vertices[v].fTextureIdx
                  \in 0..(target.draws[d].gp.proxyCnt - 1)

\* A draw of a merged op went to the target with padding samplers behind its
\* real proxies and with vertices that select the last real one.
C2_Witness ==
    \E d \in 1..Len(target.draws) :
        /\ target.draws[d].gp.proxyCnt > 1
        /\ Len(target.draws[d].gp.samplers) > target.draws[d].gp.proxyCnt
        /\ \E v \in 1..Len(target.draws[d].mesh.vertices) :
             target.draws[d].mesh.vertices[v].fTextureIdx
                = target.draws[d].gp.proxyCnt - 1

\* C3: the proxies of one op are pairwise distinct by uniqueID: a merge unifies
\* the proxies the op already has and appends only the others.
C3_ProxiesDistinct ==
    \A o \in ExistingOps : \A i, j \in SlotsOf(ops[o]) :
        Proxy(ops[o], i) = Proxy(ops[o], j) => i = j

\* An op absorbed a two-texture op of which it already had the second proxy:
\* that one was unified (index 0), the other appended (index 1).
C3_Witness ==
    \E o \in ExistingOps :
        /\ ops[o].fProxyCnt = 2
        /\ Len(ops[o].fDraws) = 3
        /\ ops[o].fDraws[1].fTextureIdx = 0
        /\ ops[o].fDraws[2].fTextureIdx = 1
        /\ ops[o].fDraws[3].fTextureIdx = 0

\* C4: an op finalized while it has one proxy, which then absorbs other ops,
\* holds exactly one pending read per slot (slot 0 from finalize, an appended
\* slot from the merge that appended it, none for a proxy it already had), and
\* its destructor completes exactly one read per slot: every proxy's pending
\* reads are those of the slots of the existing ops, its references those of
\* the ops not yet finalized, and once all ops are destroyed both counts are
\* back to their values before the ops were made.
C4_PendingReadsBalance ==
    /\ \A t \in Tex :
         /\ fPendingReads[t] = Cardinality(SlotsHolding(t, ReadTaken))
         /\ fRefCnt[t] = Cardinality({ o \in ExistingOps :
                              ~ops[o].fFinalized /\ Proxy(ops[o], 0) = t })
    /\ ExistingOps = {} => NoCounts

\* A finalized op has absorbed one op with a new proxy and one with a proxy it
\* had; both absorbed ops are destroyed, and each of its proxies has one
\* pending read and no reference.
C4_Witness ==
    \E o \in Ops :
        /\ ExistingOps = {o}
        /\ \A p \in Ops \ {o} : ops[p].status = "destroyed"
        /\ ops[o].fFinalized
        /\ ops[o].fProxyCnt = 2
        /\ Len(ops[o].fDraws) = 3
        /\ \A s \in SlotsOf(ops[o]) :
             fPendingReads[Proxy(ops[o], s)] = 1 /\ fRefCnt[Proxy(ops[o], s)] = 0

\* C5 as claimed: an op that was never finalized can be destroyed in every
\* state it can be in, also after it has absorbed ops with other textures: the
\* destructor never ends the process.
C5_Original == fault.in # "~TextureOp"

\* C5, amended: the destructor of an op that was never finalized runs on an op
\* with one proxy (it may have absorbed ops with that same proxy), drops the one
\* reference the op holds, completes no read, and leaves nothing outstanding
\* when it was the last op.
C5_DiscardSingleTexture ==
    [][ ret' = "discarded" =>
          \E o \in Ops :
             /\ Exists(ops[o]) /\ ops'[o].status = "destroyed"
             /\ ~ops[o].fFinalized
             /\ ops[o].fProxyCnt = 1
             /\ fPendingReads' = fPendingReads
             /\ fRefCnt' = [fRefCnt EXCEPT ![Proxy(ops[o], 0)] = @ - 1]
             /\ fault' = NoFault
             /\ (ExistingOps = {o} => \A t \in Tex :
                                         fRefCnt'[t] = 0 /\ fPendingReads'[t] = 0) ]_vars

\* Ops were made and never finalized; one absorbed another; the last of them
\* has just been discarded and nothing is outstanding.
C5_Witness ==
    /\ ret = "discarded"
    /\ ~flushing
    /\ ExistingOps = {}
    /\ Cardinality({ o \in Ops : ops[o].status = "destroyed" }) >= 2
    /\ NoCounts

\* C6 as claimed: once an op is finalized no merge changes it: a finalized op
\* never absorbs draws or proxies.
C6_Original ==
    [][ \A o \in Ops :
          (ops[o].fFinalized /\ Exists(ops[o]) /\ Exists(ops'[o])) =>
             /\ ops'[o].fDraws = ops[o].fDraws
             /\ ops'[o].fProxies = ops[o].fProxies ]_vars

\* C6, amended: an op is finalized at most once and only while it has one
\* proxy, stays finalized until it is destroyed, and finalize changes nothing
\* else of it; merges are not confined to ops that are not finalized.
C6_FinalizedOnceWhileSingle ==
    [][ \A o \in Ops :
          /\ (ops[o].fFinalized /\ Exists(ops'[o])) => ops'[o].fFinalized
          /\ (~ops[o].fFinalized /\ ops'[o].fFinalized) =>
                /\ ops[o].status = "live"
                /\ ops[o].fProxyCnt = 1
                /\ ops' = [ops EXCEPT ![o].fFinalized = TRUE] ]_vars

\* A finalized op has just absorbed the only other op there is.
C6_Witness ==
    /\ ret = "merged"
    /\ \E o, p \in Ops :
         /\ ExistingOps = {o, p}
         /\ ops[o].status = "live" /\ ops[o].fFinalized
         /\ ops[p].status = "absorbed" /\ ops[p].fFinalized
         /\ Len(ops[o].fDraws) = 2

\* C7 as claimed: an op with more than one proxy holds a pending read on every
\* one of its slots, slot 0 included, finalized or not.
C7_Original ==
    \A t \in Tex :
        fPendingReads[t] >=
            Cardinality(SlotsHolding(t, LAMBDA op, s : op.fProxyCnt > 1))

\* C7, amended: an op with more than one proxy holds a pending read on every
\* slot a merge appended, and on slot 0 if it was finalized before the merge
\* (the read finalize took); slot 0 of an op never finalized holds a reference.
C7_MultiTextureOpHoldsReads ==
    /\ \A t \in Tex :
         fPendingReads[t] >=
            Cardinality(SlotsHolding(t, LAMBDA op, s :
                                           op.fProxyCnt > 1 /\ ReadTaken(op, s)))
    /\ \A o \in ExistingOps :
         (ops[o].fProxyCnt > 1 /\ ~ops[o].fFinalized) => fRefCnt[Proxy(ops[o], 0)] >= 1

\* A finalized op has just absorbed an op with another proxy, and it is the only
\* holder of pending reads: one on each of its two slots.
C7_Witness ==
    /\ ret = "merged"
    /\ \E o, p \in Ops :
         /\ ExistingOps = {o, p}
         /\ ops[o].status = "live" /\ ops[o].fFinalized /\ ops[o].fProxyCnt = 2
         /\ ops[p].status = "absorbed" /\ ~ops[p].fFinalized
         /\ \A s \in SlotsOf(ops[o]) : fPendingReads[Proxy(ops[o], s)] = 1

SameSingleTexture(this, that) ==
    /\ this.fProxyCnt = 1 /\ that.fProxyCnt = 1
    /\ Proxy(this, 0) = Proxy(that, 0)
    /\ Filter(this, 0) = Filter(that, 0)
    /\ this.fAAType = that.fAAType
    /\ this.fPerspective = that.fPerspective
    /\ this.fColorSpaceXform = that.fColorSpaceXform

ConcatenatedSingle(this, that, c) ==
    LET r == Combine(this, that, c)
    IN  /\ r.result
        /\ Len(r.this.fDraws) = Len(this.fDraws) + Len(that.fDraws)
        /\ r.this.fProxyCnt = 1

\* C8 as claimed: merging two ops with the same single proxy, filter, AA type,
\* perspective and colour space transform always succeeds, whatever the caps,
\* the areas and the state of the texture.
C8_Original ==
    Recording =>
        \A pr \in MergeCandidates :
            SameSingleTexture(ops[pr[1]], ops[pr[2]]) =>
                ConcatenatedSingle(ops[pr[1]], ops[pr[2]], caps)

\* C8, amended: such a merge succeeds, with the draw count the sum of the two
\* and the proxy count still 1, unless the multi-texture branch is taken and the
\* proxy is instantiated with a sampler type other than kTexture2DSampler.
C8_SameTextureMerges ==
    Recording =>
        \A pr \in MergeCandidates :
            ( /\ SameSingleTexture(ops[pr[1]], ops[pr[2]])
              /\ ~( /\ MultitexturePath(ops[pr[1]], ops[pr[2]], caps)
                    /\ ForeignSampler(ops[pr[2]]) ) )
            => ConcatenatedSingle(ops[pr[1]], ops[pr[2]], caps)

\* Two ops with the same proxy and an area over the threshold have just merged.
C8_Witness ==
    /\ ret = "merged"
    /\ \E o \in Ops :
         /\ ops[o].status = "live"
         /\ ops[o].fProxyCnt = 1
         /\ Len(ops[o].fDraws) = 2
         /\ ops[o].fMaxApproxDstPixelArea > caps.areaThreshold

TwoSingleTextures(this, that, c) ==
    /\ this.fProxyCnt = 1 /\ that.fProxyCnt = 1
    /\ Proxy(this, 0) # Proxy(that, 0)
    /\ SupportsMultitexture(c)
    /\ this.fMaxApproxDstPixelArea <= c.areaThreshold
    /\ that.fMaxApproxDstPixelArea <= c.areaThreshold

MergedToTwo(this, that, c) ==
    LET r == Combine(this, that, c)
    IN  /\ r.result
        /\ r.this.fProxyCnt = 2
        /\ Len(r.this.fDraws) = Len(this.fDraws) + Len(that.fDraws)
        /\ \A k \in 1..Len(r.this.fDraws) :
             r.this.fDraws[k].fTextureIdx = IF k <= Len(this.fDraws) THEN 0 ELSE 1

\* C9 as claimed: two single-texture ops with different proxies merge whenever
\* multitexturing is supported and both are within the area threshold.
C9_Original ==
    Recording =>
        \A pr \in MergeCandidates :
            TwoSingleTextures(ops[pr[1]], ops[pr[2]], caps) =>
                MergedToTwo(ops[pr[1]], ops[pr[2]], caps)

\* C9, amended: they merge, to an op with two proxies whose own draws keep
\* index 0 and whose absorbed draws have index 1, when moreover the AA types are
\* the same, neither has a colour space transform, the proxies have the same
\* config and the absorbed op's proxy is not instantiated with a sampler type
\* other than kTexture2DSampler.
C9_TwoTexturesMerge ==
    Recording =>
        \A pr \in MergeCandidates :
            ( /\ TwoSingleTextures(ops[pr[1]], ops[pr[2]], caps)
              /\ ops[pr[1]].fAAType = ops[pr[2]].fAAType
              /\ ops[pr[1]].fColorSpaceXform = "null"
              /\ ops[pr[2]].fColorSpaceXform = "null"
              /\ Config(Proxy(ops[pr[1]], 0)) = Config(Proxy(ops[pr[2]], 0))
              /\ ~ForeignSampler(ops[pr[2]]) )
            => MergedToTwo(ops[pr[1]], ops[pr[2]], caps)

\* Two ops with one draw and different proxies have just merged.
C9_Witness ==
    /\ ret = "merged"
    /\ \E o \in Ops :
         /\ ops[o].status = "live"
         /\ ops[o].fProxyCnt = 2
         /\ Len(ops[o].fDraws) = 2
         /\ ops[o].fDraws[1].fTextureIdx = 0
         /\ ops[o].fDraws[2].fTextureIdx = 1

\* The two ops have a proxy in common, with different filters.
SharedWithOtherFilter(this, that) ==
    \E i \in SlotsOf(this), j \in SlotsOf(that) :
        Proxy(this, i) = Proxy(that, j) /\ Filter(this, i) # Filter(that, j)

\* C10: a merge fails whenever a proxy occurs in both ops with different
\* filters, in either branch and for single- and multi-texture ops; so no op
\* holds, and no draw samples, one proxy with two filters.
C10_FilterConflictRefused ==
    /\ Recording =>
         \A pr \in MergeCandidates :
            SharedWithOtherFilter(ops[pr[1]], ops[pr[2]]) =>
                ~Combine(ops[pr[1]], ops[pr[2]], caps).result
    /\ \A o \in ExistingOps : \A i, j \in SlotsOf(ops[o]) :
         Proxy(ops[o], i) = Proxy(ops[o], j) => Filter(ops[o], i) = Filter(ops[o], j)
    /\ \A d \in 1..Len(target.draws) :
         \A i, j \in 1..Len(target.draws[d].gp.samplers) :
            target.draws[d].gp.samplers[i].proxy = target.draws[d].gp.samplers[j].proxy
               => target.draws[d].gp.samplers[i].filter
                     = target.draws[d].gp.samplers[j].filter

\* On the multi-texture branch, an op whose second slot holds a proxy has just
\* refused an op that uses this proxy with another filter.
C10_Witness ==
    /\ ret = "refused"
    /\ \E pr \in MergeCandidates :
         /\ ExistingOps = {pr[1], pr[2]}
         /\ MultitexturePath(ops[pr[1]], ops[pr[2]], caps)
         /\ ops[pr[1]].fProxyCnt = 2
         /\ Proxy(ops[pr[1]], 1) = Proxy(ops[pr[2]], 0)
         /\ Filter(ops[pr[1]], 1) # Filter(ops[pr[2]], 0)

ProxiesOf(op) == { Proxy(op, s) : s \in SlotsOf(op) }

TransformOf(o) ==
    IF ops[o].status # "prepared" THEN << ops[o].fColorSpaceXform >>
    ELSE IF target.op = o /\ target.draws # <<>>
         THEN << target.draws[1].gp.colorSpaceXform >>
    ELSE <<>>

\* C12: a merge succeeds only if the two ops have the same AA type and equal
\* (by value) colour space transforms; so every draw of an op was requested
\* with the op's AA type and with a transform equal to the op's.
C12_SameAAAndTransform ==
    /\ Recording =>
         \A pr \in MergeCandidates :
            Combine(ops[pr[1]], ops[pr[2]], caps).result =>
               /\ ops[pr[1]].fAAType = ops[pr[2]].fAAType
               /\ ops[pr[1]].fColorSpaceXform = ops[pr[2]].fColorSpaceXform
    /\ \A o \in ExistingOps : \A k \in 1..Len(ops[o].fDraws) :
         /\ Requests[ops[o].fDraws[k].request].aaType = ops[o].fAAType
         /\ \A i \in 1..Len(TransformOf(o)) :
              Requests[ops[o].fDraws[k].request].csxf = TransformOf(o)[i]

\* An op with a colour space transform has just absorbed an op with an equal
\* one, next to an op of the same proxy with coverage AA.
C12_Witness ==
    /\ ret = "merged"
    /\ \E o, p \in Ops :
         /\ ops[o].status = "live"
         /\ Len(ops[o].fDraws) = 2
         /\ ops[o].fColorSpaceXform # "null"
         /\ ops[p].status = "live"
         /\ ops[p].fAAType = "kCoverage"
         /\ Proxy(ops[p], 0) = Proxy(ops[o], 0)

\* C13 as claimed: every draw of an op was requested with the allowSRGBInputs
\* value of the op, which is the one onPrepareDraws sets in the pipeline flags.
C13_Original ==
    /\ \A o \in ExistingOps : \A k \in 1..Len(ops[o].fDraws) :
         Requests[ops[o].fDraws[k].request].allowSRGBInputs = ops[o].fAllowSRGBInputs
    /\ (target.op # 0 /\ target.draws # <<>>) =>
         \A k \in 1..Len(ops[target.op].fDraws) :
            Requests[ops[target.op].fDraws[k].request].allowSRGBInputs
               = ("kAllowSRGBInputs_Flag" \in target.draws[1].flags)

\* C14 as claimed: in an op with several proxies every proxy has the config of
\* slot 0 and, of the instantiated ones, the sampler type of slot 0.
C14_Original ==
    \A o \in ExistingOps : \A s \in SlotsOf(ops[o]) :
        /\ Config(Proxy(ops[o], s)) = Config(Proxy(ops[o], 0))
        /\ ({Proxy(ops[o], s), Proxy(ops[o], 0)} \subseteq instantiated) =>
              SamplerType(Proxy(ops[o], s)) = SamplerType(Proxy(ops[o], 0))

\* What an op draws: per draw the rectangles, the colour and the proxy and
\* filter its index stands for.
DrawnWith(op) ==
    [ k \in 1..Len(op.fDraws) |->
        [fSrcRect |-> op.fDraws[k].fSrcRect, fQuad |-> op.fDraws[k].fQuad,
         fColor |-> op.fDraws[k].fColor,
         proxy |-> Proxy(op, op.fDraws[k].fTextureIdx),
         filter |-> Filter(op, op.fDraws[k].fTextureIdx)] ]

SameBag(s1, s2) ==
    /\ Len(s1) = Len(s2)
    /\ \A k \in 1..Len(s1) : Count(s1, s1[k]) = Count(s2, s1[k])

SameEffect(r1, r2) ==
    /\ { <<Proxy(r1, s), Filter(r1, s)>> : s \in SlotsOf(r1) }
          = { <<Proxy(r2, s), Filter(r2, s)>> : s \in SlotsOf(r2) }
    /\ SameBag(DrawnWith(r1), DrawnWith(r2))
    /\ r1.fBounds = r2.fBounds
    /\ r1.fPerspective = r2.fPerspective

\* C15 as claimed: this absorbing that succeeds exactly when that absorbing this
\* does, and then both give the same proxies and filters, the same draws of the
\* same proxies, the same bounds and the same perspective flag.
C15_Original ==
    Recording =>
        \A pr \in MergeCandidates :
            LET ab == Combine(ops[pr[1]], ops[pr[2]], caps)
                ba == Combine(ops[pr[2]], ops[pr[1]], caps)
            IN  /\ ab.result = ba.result
                /\ ab.result => SameEffect(ab.this, ba.this)

\* C16: an op has several proxies only if the caps support multitexturing, the
\* op has no colour space transform and its fMaxApproxDstPixelArea is within the
\* threshold; ops with different proxies, and an op with several proxies and any
\* other op, merge only if both are within the threshold and without transform.
C16_MultitextureConditions ==
    /\ \A o \in ExistingOps :
         ops[o].fProxyCnt > 1 =>
            /\ SupportsMultitexture(caps)
            /\ ops[o].fColorSpaceXform = "null"
            /\ ops[o].fMaxApproxDstPixelArea <= caps.areaThreshold
    /\ Recording =>
         \A pr \in MergeCandidates :
            ( /\ Combine(ops[pr[1]], ops[pr[2]], caps).result
              /\ \/ ProxiesOf(ops[pr[1]]) # ProxiesOf(ops[pr[2]])
                 \/ ops[pr[1]].fProxyCnt > 1
                 \/ ops[pr[2]].fProxyCnt > 1 )
            => /\ ops[pr[1]].fMaxApproxDstPixelArea <= caps.areaThreshold
               /\ ops[pr[2]].fMaxApproxDstPixelArea <= caps.areaThreshold
               /\ ops[pr[1]].fColorSpaceXform = "null"
               /\ ops[pr[2]].fColorSpaceXform = "null"

\* An op with two proxies has just refused an op over the threshold whose proxy
\* it has.
C16_Witness ==
    /\ ret = "refused"
    /\ \E pr \in MergeCandidates :
         /\ ExistingOps = {pr[1], pr[2]}
         /\ ops[pr[1]].fProxyCnt = 2
         /\ ops[pr[2]].fMaxApproxDstPixelArea > caps.areaThreshold
         /\ ProxiesOf(ops[pr[2]]) \subseteq ProxiesOf(ops[pr[1]])
         /\ ~FilterConflict(ops[pr[1]], ops[pr[2]])

\* C17: a successful merge leaves in this its draws followed by that's draws in
\* their order, each with its source rectangle, quad and colour; the index of an
\* absorbed draw stands in this for the proxy and filter it stood for in that;
\* this's former draws, proxies and filters are as they were.
C17_MergeAppendsRemapped ==
    [][ ret' = "merged" =>
          \E a, b \in Ops :
             /\ a # b
             /\ ops[a].status = "live" /\ ops[b].status = "live"
             /\ ops'[b].status = "absorbed"
             /\ Len(ops'[a].fDraws) = Len(ops[a].fDraws) + Len(ops[b].fDraws)
             /\ \A k \in 1..Len(ops[a].fDraws) : ops'[a].fDraws[k] = ops[a].fDraws[k]
             /\ \A k \in 1..Len(ops[b].fDraws) :
                  LET d == ops'[a].fDraws[Len(ops[a].fDraws) + k]
                      e == ops[b].fDraws[k]
                  IN  /\ d.fSrcRect = e.fSrcRect
                      /\ d.fQuad = e.fQuad
                      /\ d.fColor = e.fColor
                      /\ d.fTextureIdx \in SlotsOf(ops'[a])
                      /\ Proxy(ops'[a], d.fTextureIdx) = Proxy(ops[b], e.fTextureIdx)
                      /\ Filter(ops'[a], d.fTextureIdx) = Filter(ops[b], e.fTextureIdx)
             /\ \A s \in SlotsOf(ops[a]) :
                  /\ Proxy(ops'[a], s) = Proxy(ops[a], s)
                  /\ Filter(ops'[a], s) = Filter(ops[a], s) ]_vars

\* An op with one proxy has just absorbed an op with two proxies, the second
\* of them its own: the absorbed draws' indices 0 and 1 have become 1 and 0.
C17_Witness ==
    /\ ret = "merged"
    /\ \E a, b \in Ops :
         /\ ops[a].status = "live" /\ ops[b].status = "absorbed"
         /\ ops[a].fProxyCnt = 2 /\ ops[b].fProxyCnt = 2
         /\ Len(ops[a].fDraws) = 3 /\ Len(ops[b].fDraws) = 2
         /\ ops[a].fDraws[2].fTextureIdx = 1
         /\ ops[a].fDraws[3].fTextureIdx = 0

\* The last call was onPrepareDraws, every proxy of its op was instantiated and
\* nothing was printed: instantiation and the allocations succeeded.
PreparedAll ==
    /\ target.op # 0
    /\ ProxiesOf(ops[target.op]) \subseteq instantiated
    /\ target.log = <<>>

\* The last call was onPrepareDraws and an instantiate() or an allocation failed.
PrepareFailed == target.op # 0 /\ ~PreparedAll

\* C19: when instantiation and the allocations succeed, an op with n draws gives
\* the target exactly one draw with 4n vertices, four in a row per draw in the
\* order of the draws: for n = 1 a triangle strip without indices, for n > 1
\* triangles with the 6-index quad pattern n times.
C19_OneDrawPerOp ==
    PreparedAll =>
        LET op == ops[target.op]
            n  == Len(op.fDraws)
        IN  /\ Len(target.draws) = 1
            /\ Len(target.draws[1].mesh.vertices) = 4 * n
            /\ \A v \in 1..Len(target.draws[1].mesh.vertices) :
                 LET draw == op.fDraws[((v - 1) \div 4) + 1]
                     vtx  == target.draws[1].mesh.vertices[v]
                 IN  /\ vtx.fQuad = draw.fQuad
                     /\ vtx.fColor = draw.fColor
                     /\ vtx.corner = (v - 1) % 4
            /\ n = 1 => /\ target.draws[1].mesh.primitiveType = "kTriangleStrip"
                        /\ target.draws[1].mesh.indexCount = 0
            /\ n > 1 => /\ target.draws[1].mesh.primitiveType = "kTriangles"
                        /\ target.draws[1].mesh.indexCount = 6 * n

\* An op that has absorbed two others, with draws of different quads, was
\* drawn: 12 vertices and 18 indices.
C19_Witness ==
    /\ PreparedAll
    /\ Len(ops[target.op].fDraws) = 3
    /\ ops[target.op].fDraws[1].fQuad # ops[target.op].fDraws[2].fQuad
    /\ Len(target.draws) = 1
    /\ Len(target.draws[1].mesh.vertices) = 12
    /\ target.draws[1].mesh.indexCount = 18

\* C20: when an instantiate() fails, or there is no vertex space, or (with more
\* than one draw) no quad index buffer, the op gives the target no draw and
\* returns: the process goes on, the op's draws and proxies and the proxies'
\* counts are as before, and the destructor still releases them.
C20_FailedPrepareDrawsNothing ==
    [][ PrepareFailed' =>
          /\ target'.draws = <<>>
          /\ fault' = NoFault
          /\ ops'[target'.op].fDraws = ops[target'.op].fDraws
          /\ ops'[target'.op].fProxies = ops[target'.op].fProxies
          /\ ops'[target'.op].fProxyCnt = ops[target'.op].fProxyCnt
          /\ ops'[target'.op].fFinalized = ops[target'.op].fFinalized
          /\ fRefCnt' = fRefCnt
          /\ fPendingReads' = fPendingReads
          /\ destructorOk(ops'[target'.op])
          /\ \A t \in Tex :
               fPendingReads'[t] >= Count(DestructorReads(ops'[target'.op]), t) ]_vars

\* An op with several draws found no quad index buffer, and another finalized
\* op is still to be prepared.
C20_Witness ==
    /\ PrepareFailed
    /\ target.log = << "Could not allocate quad indices" >>
    /\ Len(ops[target.op].fDraws) > 1
    /\ \E p \in Ops : Preparable(ops[p])

\* The slot counts for 1 to 9 proxies.
SlotCounts == << 1, 4, 4, 4, 8, 8, 8, 8, 8 >>

\* C18 as claimed: the function gives 1 for 1 proxy, 4 for 2 to 4, and for more
\* the next power of two capped by kMaxTextures and the limit of the caps; with
\* kMaxTextures 8 and a limit of at least 8, the counts 1 to 9 give 1, 4, 4, 4,
\* 8, 8, 8, 8, 8.
C18_Original ==
    (ret.numRealProxies \in 1..9 /\ caps.maxFragmentSamplers >= 8) =>
        /\ fault = NoFault
        /\ ret.samplers = SlotCounts[ret.numRealProxies]

\* C18, amended: for the counts its assertion admits (at least 1, at most
\* kMaxTextures and at most the limit of the caps) the function gives 1 for 1
\* proxy, 4 for 2 to 4, and for more 8 or, if smaller, the limit of the caps;
\* with a limit of at least 8 the counts 1 to 8 give 1, 4, 4, 4, 8, 8, 8, 8.  A
\* count its assertion does not admit, such as 9, is answered by the failed
\* assertion, or in a build without assertions by the same rule.
C18_SamplerCounts ==
    /\ fault # NoFault => ~NumSamplersToUseOk(ret.numRealProxies, caps)
    /\ (fault = NoFault /\ ret # NoCall) =>
         /\ ret.numRealProxies = 1 => ret.samplers = 1
         /\ ret.numRealProxies \in 2..4 => ret.samplers = 4
         /\ ret.numRealProxies >= 5 =>
               ret.samplers = IF caps.maxFragmentSamplers < 8
                              THEN caps.maxFragmentSamplers ELSE 8
         /\ (ret.numRealProxies <= 8 /\ caps.maxFragmentSamplers >= 8) =>
               ret.samplers = SlotCounts[ret.numRealProxies]

\* Under caps with a limit over 8 the function was called with 5 and gave 8.
C18_Witness ==
    /\ fault = NoFault
    /\ caps.maxFragmentSamplers > 8
    /\ ret.numRealProxies = 5
    /\ ret.samplers = 8

\* The last call was onPrepareDraws and an instantiate() failed.
InstantiateFailed ==
    target.op # 0 /\ ~(ProxiesOf(ops[target.op]) \subseteq instantiated)

\* C21 as claimed: every failure that makes onPrepareDraws return without a
\* draw prints a line first: a failed instantiate() of any proxy, no vertex
\* space, no quad index buffer.
C21_Original == PrepareFailed => target.log # <<>>

\* C21, amended: onPrepareDraws prints a line before it returns without a draw
\* for want of vertex space ("Could not allocate vertices") or of the quad index
\* buffer ("Could not allocate quad indices"); when an instantiate() fails it
\* returns without a draw and prints nothing.
C21_BufferFailuresLogged ==
    /\ InstantiateFailed => (target.log = <<>> /\ target.draws = <<>>)
    /\ (target.op # 0 /\ ~InstantiateFailed /\ target.draws = <<>>) =>
          /\ target.log \in { << "Could not allocate vertices" >>,
                              << "Could not allocate quad indices" >> }
          /\ target.log = << "Could not allocate quad indices" >> =>
                Len(ops[target.op].fDraws) > 1
    /\ target.draws # <<>> => target.log = <<>>

\* An op with one draw found no vertex space and printed so.
C21_Witness ==
    /\ target.op # 0
    /\ ~InstantiateFailed
    /\ target.draws = <<>>
    /\ target.log = << "Could not allocate vertices" >>
    /\ Len(ops[target.op].fDraws) = 1

\* C24 as claimed: for every count n of proxies from 1 to min(kMaxTextures,
\* maxFragmentSamplers) the number s of samplers satisfies n <= s and
\* s <= maxFragmentSamplers, and s > 1 exactly when n > 1.
C24_Original ==
    (fault = NoFault /\ ret # NoCall /\ NumSamplersToUseOk(ret.numRealProxies, caps)) =>
        /\ ret.numRealProxies <= ret.samplers
        /\ ret.samplers <= caps.maxFragmentSamplers
        /\ (ret.samplers > 1) <=> (ret.numRealProxies > 1)

\* The corners of a quad along its outline: strip order 0, 1, 3, 2.
Outline == <<1, 2, 4, 3>>

\* Twice the signed area the outline of the quad passed in encloses.
Area2(q) ==
    LET X(k) == q.x[Outline[((k - 1) % 4) + 1]]
        Y(k) == q.y[Outline[((k - 1) % 4) + 1]]
    IN  X(1) * Y(2) - X(2) * Y(1) + X(2) * Y(3) - X(3) * Y(2)
        + X(3) * Y(4) - X(4) * Y(3) + X(4) * Y(1) - X(1) * Y(4)

\* The turn at corner k of the outline: positive to one side, negative to the
\* other.
Turn(q, k) ==
    LET X(j) == q.x[Outline[((j - 1) % 4) + 1]]
        Y(j) == q.y[Outline[((j - 1) % 4) + 1]]
    IN  (X(k + 1) - X(k)) * (Y(k + 2) - Y(k + 1))
        - (Y(k + 1) - Y(k)) * (X(k + 2) - X(k + 1))

\* The outline turns the same way at every corner.
Convex(q) ==
    \/ \A k \in 1..4 : Turn(q, k) > 0
    \/ \A k \in 1..4 : Turn(q, k) < 0

\* Edge equation j at the point (px, py).
EdgeAt(out, j, px, py) ==
    FAdd(FAdd(FMul(out.a[j], px), FMul(out.b[j], py)), out.c[j])

\* What C22 says of the values the function returns for the quad q: normals of
\* length one, every edge half a unit off its own corner of q, and no edge
\* negative at any of the outset points.
EdgesHoldOutset(q, out) ==
    /\ \A j \in Lanes :
          /\ FAdd(FMul(out.a[j], out.a[j]), FMul(out.b[j], out.b[j])) = F(1)
          /\ EdgeAt(out, j, F(q.x[j]), F(q.y[j])) = <<1, 2>>
    /\ \A i, j \in Lanes :
          /\ IsFinite(out.x[i]) /\ IsFinite(out.y[i])
          /\ ~FLess(EdgeAt(out, j, out.x[i], out.y[i]), F(0))

ZeroArea(rect) == rect.fLeft = rect.fRight \/ rect.fTop = rect.fBottom

\* The vertices tessellated for draw k of the op that was prepared.
VerticesOf(k) ==
    { target.draws[1].mesh.vertices[v] : v \in (4 * k - 3)..(4 * k) }

\* C23 as claimed: a draw whose destination rectangle has no area gives its op
\* bounds of zero area and is tessellated without a failed assertion by each of
\* the four handlers (coverage AA or not, perspective or not): four vertices
\* are produced, and under coverage AA, where the matrix from the quad to the
\* texture has no inverse, the texture coordinates are left unset.
C23_Original ==
    /\ fault.in # "tessellate_quad"
    /\ \A o \in Ops :
          (ops[o].status # "none" /\ Len(ops[o].fDraws) = 1
             /\ ZeroArea(QuadBounds(ops[o].fDraws[1].fQuad)))
          => ZeroArea(ops[o].fBounds)
    /\ target.draws # <<>> =>
          \A k \in 1..Len(ops[target.op].fDraws) :
             ZeroArea(QuadBounds(ops[target.op].fDraws[k].fQuad)) =>
                /\ Len(target.draws[1].mesh.vertices) >= 4 * k
                /\ \A vtx \in VerticesOf(k) :
                      ops[target.op].fAAType = "kCoverage"
                         => vtx.fTextureCoords = "unset"

\* The point a position stands for in device space: (x, y), or (x/w, y/w).
Projected(pos) ==
    IF Len(pos) = 2 THEN pos
    ELSE <<FMul(pos[1], FInvert(pos[3])), FMul(pos[2], FInvert(pos[3]))>>

\* The point lies in the rectangle, its edges included.
Contains(rect, pt) ==
    /\ IsFinite(pt[1]) /\ IsFinite(pt[2])
    /\ ~FLess(pt[1], F(rect.fLeft)) /\ ~FLess(F(rect.fRight), pt[1])
    /\ ~FLess(pt[2], F(rect.fTop)) /\ ~FLess(F(rect.fBottom), pt[2])

\* C25 as claimed: the bounds of an op (those of its first draw's quad, joined
\* with the other op's on every merge) contain the positions of all vertices
\* tessellated for its draws, in every AA mode, coverage AA with its outset by
\* half a pixel included.
C25_Original ==
    target.draws # <<>> =>
        \A v \in 1..Len(target.draws[1].mesh.vertices) :
            Contains(ops[target.op].fBounds,
                     Projected(target.draws[1].mesh.vertices[v].fPosition))
====
